---- MODULE Spec2Model ----
(***************************************************************************)
(* RADIUS Dynamic Authorization Server (RFC 5176) endpoint,                *)
(* src/radius/radius_das.c: radius_das_init, radius_das_open_socket,       *)
(* radius_das_deinit and the read handler radius_das_receive.              *)
(*                                                                         *)
(* The process is single threaded: the lifecycle calls and the read        *)
(* handler run on the event-loop thread, so a handler invocation is never  *)
(* interleaved with a lifecycle call.  The lifecycle calls are one action  *)
(* each (they return before anything else runs); the handler is modelled   *)
(* statement by statement with a program counter.                          *)
(***************************************************************************)
EXTENDS Integers, Sequences, FiniteSets, TLC

(* ------------------------------ bounds --------------------------------- *)
\* descriptors of the process are 0..MaxFd
MaxFd == 1
\* heap blocks available for struct radius_das_data are 1..MaxEndpoints
MaxEndpoints == 2
\* datagrams a socket's receive queue holds
MaxQueue == 2

(* --------------------------- program constants ------------------------- *)
NULL == 0

(* ------------------------------ domains -------------------------------- *)
FDs == 0..MaxFd
Endpoints == 1..MaxEndpoints
\* IPv4 addresses (s_addr): the last octet of 10.0.0.x
Addrs == {5, 9}
\* UDP ports a configuration names; 0 is the invalid port
ConfPorts == {0, 3799}
\* source ports of datagrams
FromPorts == {3799, 40000}
\* shared secrets as byte strings; <<>> is the empty secret (length 0)
Secrets == {<<>>, <<1>>}
\* the secrets a sender signs a request with
SenderKeys == {<<1>>, <<2>>, <<>>}
\* RADIUS identifiers on the wire
WireIds == {7, 200}

\* descriptor table entries: closed, open but not a DAS socket (descriptor 0
\* of the process), or a UDP socket bound to the port given by a positive entry
FD_CLOSED == -1
FD_OTHER == 0

\* struct radius_das_conf as the caller fills it: shared_secret and
\* client_addr are pointers (NULL or not), secret_bytes and addr what they
\* point to
Confs ==
  { [port |-> p, shared_secret |-> 1, secret_bytes |-> k,
     shared_secret_len |-> Len(k), client_addr |-> 1, addr |-> a]
      : p \in ConfPorts, k \in Secrets, a \in Addrs }
  \cup { [port |-> p, shared_secret |-> NULL, secret_bytes |-> <<>>,
          shared_secret_len |-> 0, client_addr |-> 1, addr |-> a]
           : p \in ConfPorts, a \in Addrs }
  \cup { [port |-> p, shared_secret |-> 1, secret_bytes |-> k,
          shared_secret_len |-> Len(k), client_addr |-> NULL, addr |-> 0]
           : p \in ConfPorts, k \in Secrets }

\* the datagrams a peer can send: source address and port, and the bytes.
\* The bytes are <<>> (too short to hold a RADIUS header) or a header
\* <<code, identifier, authenticator>>, the authenticator computed by the
\* sender over the code and the identifier with the key it holds
WireCodes == {"DISCONNECT_REQUEST", "COA_REQUEST", "ACCESS_REQUEST"}

Authenticator(code, identifier, key) == <<code, identifier, key>>

Payloads ==
  {<<>>} \cup { <<c, i, Authenticator(c, i, k)>>
                  : c \in WireCodes, i \in WireIds, k \in SenderKeys }

Datagrams ==
  { [addr |-> a, port |-> q, bytes |-> b]
      : a \in Addrs, q \in FromPorts, b \in Payloads }

VARIABLES
  das,       \* heap: das[e] is the struct radius_das_data in block e
  heap,      \* live heap blocks: <<"das", e>> and <<"secret", e>>
  fdtab,     \* the process's descriptor table
  eloop,     \* event loop read table: eloop[fd] = registered context or NULL
  rxq,       \* rxq[fd]: datagrams pending on socket fd
  held,      \* endpoint pointers the caller got from radius_das_init
  stale,     \* pointers the caller kept after passing them to deinit
  lastCall,  \* the lifecycle call made by the last step, with its effects
  pc,        \* where radius_das_receive is; "idle" outside the handler
  sock,      \* radius_das_receive's argument sock
  ctx,       \* radius_das_receive's argument eloop_ctx (das)
  from,      \* <<>> or <<[addr, port]>>: the source recvfrom filled in
  buf,       \* the bytes recvfrom stored
  msg,       \* <<>> for NULL, or <<m>>: the request radius_msg_parse built
  reply,     \* <<>> for NULL, or <<r>>: the response being built
  objs,      \* the radius_msg objects of the cycle: none, live or freed
  sent,      \* the sendto calls of the cycle
  steps      \* the steps the cycle has executed, in order

lifeVars == <<das, heap, fdtab, eloop, rxq>>
callVars == <<held, stale, lastCall>>
cycVars == <<pc, sock, ctx, from, buf, msg, reply, objs, sent, steps>>
vars ==
  <<das, heap, fdtab, eloop, rxq, held, stale, lastCall,
    pc, sock, ctx, from, buf, msg, reply, objs, sent, steps>>

(* ------------------- struct radius_das_data and the heap ---------------- *)
\* what os_zalloc returns: every field zero
ZeroDas ==
  [sock |-> 0, shared_secret |-> NULL, secret_bytes |-> <<>>,
   shared_secret_len |-> 0, client_addr |-> 0]

\* the part of the state the lifecycle functions work on, with the log of
\* the library and system calls one lifecycle call has made
World ==
  [das |-> das, heap |-> heap, fdtab |-> fdtab, eloop |-> eloop,
   rxq |-> rxq, log |-> <<>>]

Logged(W, entry) == [W EXCEPT !.log = Append(@, entry)]

\* eloop_unregister_read_sock(sock): drops the read registration of sock
eloop_unregister_read_sock(W, fd) ==
  [Logged(W, <<"unregister", fd>>) EXCEPT !.eloop[fd] = NULL]

\* eloop_register_read_sock(sock, radius_das_receive, das, NULL), succeeding
eloop_register_read_sock(W, fd, c) ==
  [Logged(W, <<"register", fd>>) EXCEPT !.eloop[fd] = c]

\* close(fd): the descriptor becomes free and its queue is discarded;
\* EBADF on a descriptor that is not open
close(W, fd) ==
  [Logged(W, <<"close", fd>>) EXCEPT !.fdtab[fd] = FD_CLOSED, !.rxq[fd] = 0]

\* os_free(das->shared_secret): a no-op on NULL
os_free_secret(W, e) ==
  IF W.das[e].shared_secret = NULL THEN W
  ELSE [Logged(W, <<"free_secret", e>>) EXCEPT !.heap = @ \ {<<"secret", e>>}]

\* os_free(das): the block returns to the allocator, its contents are gone
os_free_das(W, e) ==
  [Logged(W, <<"free_das", e>>) EXCEPT !.heap = @ \ {<<"das", e>>},
                                         !.das[e] = ZeroDas]

(* --------------------------- radius_das_deinit -------------------------- *)
\* variant: radius_das_deinit without os_free(das->shared_secret)
radius_das_deinit_leak(W, p) ==
  IF p = NULL THEN W
  ELSE LET d == W.das[p]
           W1 == IF d.sock >= 0
                 THEN close(eloop_unregister_read_sock(W, d.sock), d.sock)
                 ELSE W
       IN os_free_das(W1, p)

\* variant: radius_das_deinit without the test of line 212, reading sock
\* through the null pointer as 0
radius_das_deinit_nonull(W, p) ==
  IF p = NULL THEN close(eloop_unregister_read_sock(W, 0), 0)
  ELSE LET d == W.das[p]
           W1 == IF d.sock >= 0
                 THEN close(eloop_unregister_read_sock(W, d.sock), d.sock)
                 ELSE W
       IN os_free_das(os_free_secret(W1, p), p)

\* variant: radius_das_deinit closing the socket without
\* eloop_unregister_read_sock
radius_das_deinit_nounreg(W, p) ==
  IF p = NULL THEN W
  ELSE LET d == W.das[p]
           W1 == IF d.sock >= 0 THEN close(W, d.sock) ELSE W
       IN os_free_das(os_free_secret(W1, p), p)

\* lines 210-222
radius_das_deinit(W, p) ==
  IF p = NULL THEN W
  ELSE LET d == W.das[p]
           W1 == IF d.sock >= 0
                 THEN close(eloop_unregister_read_sock(W, d.sock), d.sock)
                 ELSE W
       IN os_free_das(os_free_secret(W1, p), p)

(* ------------------------- radius_das_open_socket ----------------------- *)
FreeFds(W) == {fd \in FDs : W.fdtab[fd] = FD_CLOSED}

\* socket() returns the lowest descriptor that is not open
LowestFreeFd(W) ==
  CHOOSE fd \in FreeFds(W) : \A g \in FreeFds(W) : fd <= g

\* bind() fails with EADDRINUSE when a socket of the process has the port
PortInUse(W, port) == \E fd \in FDs : W.fdtab[fd] = port

\* the outcomes of radius_das_open_socket(port): the descriptor returned
\* (-1 on failure) and the state it leaves
radius_das_open_socket(W, port) ==
  {[W |-> W, s |-> -1, why |-> "socket"]}
  \cup
  IF FreeFds(W) = {} THEN {}
  ELSE LET s == LowestFreeFd(W)
           W1 == Logged(W, <<"socket", s>>)
       IN {[W |-> close(W1, s), s |-> -1, why |-> "bind"]}
          \cup
          IF PortInUse(W, port) THEN {}
          ELSE {[W |-> [W1 EXCEPT !.fdtab[s] = port], s |-> s, why |-> "ok"]}

(* ---------------------------- radius_das_init --------------------------- *)
FreeBlocks(W) == {e \in Endpoints : <<"das", e>> \notin W.heap}

\* line 172: the configurations radius_das_init refuses
ConfRefused(conf) ==
  conf.port = 0 \/ conf.shared_secret = NULL \/ conf.client_addr = NULL

\* lines 192-206, with das->sock set from radius_das_open_socket
InitWithSocket(W, e) ==
  IF W.das[e].sock < 0
  THEN {[W |-> radius_das_deinit(W, e), ret |-> NULL, path |-> "socket"]}
  ELSE {[W |-> radius_das_deinit(W, e), ret |-> NULL, path |-> "register"],
        [W |-> eloop_register_read_sock(W, W.das[e].sock, e), ret |-> e,
         path |-> "ok"]}

\* lines 176-206 with os_zalloc returning block e
InitAt(W, conf, e) ==
  LET W1 == [Logged(W, <<"zalloc", e>>) EXCEPT !.heap = @ \cup {<<"das", e>>},
                                                !.das[e] = ZeroDas]
      W2 == [W1 EXCEPT !.das[e].client_addr = conf.addr]
      W3 == [Logged(W2, <<"malloc", e>>) EXCEPT
               !.heap = @ \cup {<<"secret", e>>},
               !.das[e].shared_secret = e,
               !.das[e].secret_bytes = conf.secret_bytes,
               !.das[e].shared_secret_len = conf.shared_secret_len]
  IN \* os_malloc returned NULL (always possible for a length of 0)
     {[W |-> radius_das_deinit(W2, e), ret |-> NULL, path |-> "secret"]}
     \cup
     UNION { InitWithSocket([o.W EXCEPT !.das[e].sock = o.s], e)
               : o \in radius_das_open_socket(W3, conf.port) }

\* the outcomes of radius_das_init(conf): the pointer returned and the state
radius_das_init(W, conf) ==
  IF ConfRefused(conf)
  THEN {[W |-> W, ret |-> NULL, path |-> "conf"]}
  ELSE {[W |-> W, ret |-> NULL, path |-> "zalloc"]}
       \cup UNION { InitAt(W, conf, e) : e \in FreeBlocks(W) }

(* ------------------------------ the caller ------------------------------ *)
NoConf ==
  [port |-> 0, shared_secret |-> NULL, secret_bytes |-> <<>>,
   shared_secret_len |-> 0, client_addr |-> NULL, addr |-> 0]

NoCall ==
  [op |-> "none", conf |-> NoConf, arg |-> NULL, ret |-> NULL, path |-> "",
   log |-> <<>>, onStale |-> FALSE]

Install(W) ==
  /\ das' = W.das
  /\ heap' = W.heap
  /\ fdtab' = W.fdtab
  /\ eloop' = W.eloop
  /\ rxq' = W.rxq

\* the caller calls radius_das_init(conf) and keeps the pointer it returns
CallInit(conf) ==
  /\ pc = "idle"
  /\ \E o \in radius_das_init(World, conf) :
       /\ Install(o.W)
       /\ held' = IF o.ret = NULL THEN held ELSE held \cup {o.ret}
       /\ lastCall' = [op |-> "init", conf |-> conf, arg |-> NULL,
                       ret |-> o.ret, path |-> o.path, log |-> o.W.log,
                       onStale |-> FALSE]
  /\ UNCHANGED <<stale, cycVars>>

\* the caller calls radius_das_deinit(p) on NULL or on an endpoint it holds,
\* and forgets the pointer
CallDeinit(p) ==
  /\ pc = "idle"
  /\ p \in {NULL} \cup held
  /\ LET W == radius_das_deinit(World, p)
     IN /\ Install(W)
        /\ lastCall' = [op |-> "deinit", conf |-> NoConf, arg |-> p,
                        ret |-> NULL, path |-> "", log |-> W.log,
                        onStale |-> FALSE]
  /\ held' = held \ {p}
  /\ UNCHANGED <<stale, cycVars>>

\* a caller that calls radius_das_deinit(p) and keeps the pointer
CallDeinitKeep(p) ==
  /\ pc = "idle"
  /\ p \in held
  /\ LET W == radius_das_deinit(World, p)
     IN /\ Install(W)
        /\ lastCall' = [op |-> "deinit", conf |-> NoConf, arg |-> p,
                        ret |-> NULL, path |-> "", log |-> W.log,
                        onStale |-> FALSE]
  /\ held' = held \ {p}
  /\ stale' = stale \cup {p}
  /\ UNCHANGED cycVars

\* what a freed struct radius_das_data may read as: any descriptor number
\* in sock, a null or the old pointer in shared_secret
FreedDas(p) ==
  { [ZeroDas EXCEPT !.sock = s, !.shared_secret = q]
      : s \in -1..MaxFd, q \in {NULL, p} }

\* that caller calls radius_das_deinit(p) again on the pointer it kept: the
\* block is either in use again (os_zalloc returned it to a later
\* radius_das_init) or still free, and then its contents are indeterminate
CallDeinitStale(p) ==
  /\ pc = "idle"
  /\ p \in stale
  /\ \E g \in (IF <<"das", p>> \in heap THEN {das[p]} ELSE FreedDas(p)) :
       LET W == radius_das_deinit([World EXCEPT !.das[p] = g], p)
       IN /\ Install(W)
          /\ lastCall' = [op |-> "deinit", conf |-> NoConf, arg |-> p,
                          ret |-> NULL, path |-> "", log |-> W.log,
                          onStale |-> TRUE]
  /\ held' = held \ {p}
  /\ UNCHANGED <<stale, cycVars>>

(* ------------------------------ the network ----------------------------- *)
\* a datagram arrives on a bound UDP socket.  Arrivals commute with every
\* handler step but recvfrom, which Notify only lets run on a non-empty
\* queue, so they are taken between handler invocations only
Arrive(fd) ==
  /\ pc = "idle"
  /\ fdtab[fd] > FD_OTHER
  /\ rxq[fd] < MaxQueue
  /\ rxq' = [rxq EXCEPT ![fd] = @ + 1]
  /\ lastCall' = NoCall
  /\ UNCHANGED <<das, heap, fdtab, eloop, held, stale, cycVars>>

(* ------------------------------ the codec ------------------------------- *)
HdrLen == 3

\* radius_msg_parse(buf, len): NULL unless the bytes hold a header
radius_msg_parse(bytes) ==
  IF Len(bytes) < HdrLen THEN <<>>
  ELSE <<[code |-> bytes[1], identifier |-> bytes[2],
          authenticator |-> bytes[3]]>>

\* radius_msg_verify_das_req(msg, secret, secret_len): 0 when the request's
\* authenticator is the one computed with the first secret_len bytes of
\* secret, non-zero otherwise
radius_msg_verify_das_req(m, secret, secret_len) ==
  IF m.authenticator =
       Authenticator(m.code, m.identifier, SubSeq(secret, 1, secret_len))
  THEN 0 ELSE 1

\* radius_msg_new(code, identifier), succeeding
radius_msg_new(code, identifier) ==
  [code |-> code, identifier |-> identifier, attrs |-> <<>>,
   msgauth |-> <<>>]

\* radius_msg_add_attr_int32(msg, type, value)
radius_msg_add_attr_int32(r, type, value) ==
  [r EXCEPT !.attrs = Append(@, <<type, value>>)]

\* radius_msg_finish_das_resp(msg, secret, secret_len, req_hdr), succeeding:
\* adds Message-Authenticator, keyed by the secret over the response and the
\* request's authenticator
radius_msg_finish_das_resp(r, secret, secret_len, req_hdr) ==
  [r EXCEPT !.attrs = Append(@, <<"MESSAGE_AUTHENTICATOR", 16>>),
            !.msgauth = <<SubSeq(secret, 1, secret_len),
                          req_hdr.authenticator>>]

(* -------------------------- radius_das_receive -------------------------- *)
NoObjs == [o \in {"msg", "reply"} |-> "none"]

\* radius_msg_free(m): a no-op on NULL
radius_msg_free(os, name, ptr) ==
  IF ptr = <<>> THEN os
  ELSE [os EXCEPT ![name] = IF @ = "live" THEN "freed" ELSE "double"]

\* the event loop finds sock readable and calls the handler registered for
\* it with the registered context
Notify(fd) ==
  /\ pc = "idle"
  /\ eloop[fd] # NULL
  /\ fdtab[fd] > FD_OTHER
  /\ rxq[fd] > 0
  /\ pc' = "recvfrom"
  /\ sock' = fd
  /\ ctx' = eloop[fd]
  /\ lastCall' = NoCall
  /\ UNCHANGED <<lifeVars, held, stale, from, buf, msg, reply, objs, sent,
                 steps>>

\* variant: a failed recvfrom treated as fatal, the socket closed
OnRecvError_fatal ==
  /\ fdtab' = [fdtab EXCEPT ![sock] = FD_CLOSED]
  /\ UNCHANGED <<das, heap, eloop, rxq>>

\* lines 52-55: a failed recvfrom is logged and the handler returns
OnRecvError == UNCHANGED lifeVars

\* variant: the handler drains the socket's queue
Dequeue_drain(q, fd) == [q EXCEPT ![fd] = 0]

\* lines 50-51: one recvfrom takes one datagram off the socket's queue
Dequeue(q, fd) == [q EXCEPT ![fd] = @ - 1]

\* lines 49-58: recvfrom fails, or stores one datagram and its source
RecvFrom ==
  /\ pc = "recvfrom"
  /\ steps' = Append(steps, "recvfrom")
  /\ \/ /\ OnRecvError
        /\ pc' = "return"
        /\ UNCHANGED <<from, buf>>
     \/ \E d \in Datagrams :
          /\ rxq' = Dequeue(rxq, sock)
          /\ from' = <<[addr |-> d.addr, port |-> d.port]>>
          /\ buf' = d.bytes
          /\ pc' = "origin"
          /\ UNCHANGED <<das, heap, fdtab, eloop>>
  /\ UNCHANGED <<callVars, sock, ctx, msg, reply, objs, sent>>

\* variant: no origin check
FromClient_any(d, src) == TRUE

\* line 62: the datagram's source address is the configured client's
FromClient(d, src) == d.client_addr = src.addr

\* lines 62-65
OriginCheck ==
  /\ pc = "origin"
  /\ steps' = Append(steps, "origin")
  /\ pc' = IF FromClient(das[ctx], from[1]) THEN "parse" ELSE "return"
  /\ UNCHANGED <<lifeVars, callVars, sock, ctx, from, buf, msg, reply, objs,
                 sent>>

\* lines 67-72: radius_msg_parse returns NULL for bytes it cannot decode and
\* when it cannot allocate
Parse ==
  /\ pc = "parse"
  /\ steps' = Append(steps, "parse")
  /\ \E m \in {<<>>, radius_msg_parse(buf)} :
       /\ msg' = m
       /\ objs' = IF m = <<>> THEN objs ELSE [objs EXCEPT !["msg"] = "live"]
       /\ pc' = IF m = <<>> THEN "return" ELSE "verify"
  /\ UNCHANGED <<lifeVars, callVars, sock, ctx, from, buf, reply, sent>>

\* variant: the verification called with a secret length of 0
VerifyResult_nosecret(d, m) == radius_msg_verify_das_req(m, d.secret_bytes, 0)

\* variant: the result of the verification ignored
VerifyResult_skip(d, m) == 0

\* lines 77-78: the result of verifying the request against the endpoint
VerifyResult(d, m) ==
  radius_msg_verify_das_req(m, d.secret_bytes, d.shared_secret_len)

\* lines 77-84
Verify ==
  /\ pc = "verify"
  /\ steps' = Append(steps, "verify")
  /\ pc' = IF VerifyResult(das[ctx], msg[1]) # 0 THEN "fail" ELSE "dispatch"
  /\ UNCHANGED <<lifeVars, callVars, sock, ctx, from, buf, msg, reply, objs,
                 sent>>

\* variant: Disconnect-Request answered with Disconnect-ACK
ReplyCode_ack(code) ==
  CASE code = "DISCONNECT_REQUEST" -> "DISCONNECT_ACK"
    [] code = "COA_REQUEST" -> "COA_NAK"
    [] OTHER -> ""

\* variant: the default branch answers too
ReplyCode_all(code) ==
  CASE code = "DISCONNECT_REQUEST" -> "DISCONNECT_NAK"
    [] code = "COA_REQUEST" -> "COA_NAK"
    [] OTHER -> "COA_NAK"

\* lines 86-110: the code of the response the switch builds; "" in the
\* default branch, which builds none
ReplyCode(code) ==
  CASE code = "DISCONNECT_REQUEST" -> "DISCONNECT_NAK"
    [] code = "COA_REQUEST" -> "COA_NAK"
    [] OTHER -> ""

\* variant: the identifier taken from what is pending on the socket, not
\* from the request
BuildReply_counted(code, hdr) ==
  radius_msg_add_attr_int32(radius_msg_new(code, rxq[sock]),
                            "ERROR_CAUSE", 405)

\* lines 89-95 and 98-105: the response of a branch whose radius_msg_new
\* succeeded
BuildReply(code, hdr) ==
  radius_msg_add_attr_int32(radius_msg_new(code, hdr.identifier),
                            "ERROR_CAUSE", 405)

\* variant: return instead of break when radius_msg_new returned NULL
OnReplyAllocFailed_return == "return"

\* variant: radius_msg_new tried again when it returned NULL
OnReplyAllocFailed_retry == "dispatch"

\* lines 91-92, 100-101 and 112: radius_msg_new returned NULL, the branch
\* breaks, the test of reply fails and control reaches the label fail
OnReplyAllocFailed == "fail"

\* lines 86-112: the switch, and the test of reply that follows it
Dispatch ==
  /\ pc = "dispatch"
  /\ steps' = Append(steps, "dispatch")
  /\ LET hdr == msg[1]
         code == ReplyCode(hdr.code)
     IN IF code = ""
        THEN /\ pc' = "fail"
             /\ UNCHANGED <<reply, objs>>
        ELSE \/ /\ reply' = <<BuildReply(code, hdr)>>
                /\ objs' = [objs EXCEPT !["reply"] = "live"]
                /\ pc' = "finish"
             \/ \* radius_msg_new returned NULL
                /\ pc' = OnReplyAllocFailed
                /\ UNCHANGED <<reply, objs>>
  /\ UNCHANGED <<lifeVars, callVars, sock, ctx, from, buf, msg, sent>>

\* variant: the response signed with the response's own header in place of
\* the request's
SignReply_self(d, r, hdr) ==
  radius_msg_finish_das_resp(r, d.secret_bytes, d.shared_secret_len,
                             [authenticator |-> <<r.code, r.identifier>>])

\* lines 117-118: the arguments radius_msg_finish_das_resp is called with
SignReply(d, r, hdr) ==
  radius_msg_finish_das_resp(r, d.secret_bytes, d.shared_secret_len, hdr)

\* variant: a response that could not be signed is dropped
AfterFinish_drop(res) == IF res < 0 THEN "fail" ELSE "sendto"

\* lines 117-127: a failed radius_msg_finish_das_resp is logged and the
\* handler goes on to sendto
AfterFinish(res) == "sendto"

\* lines 117-125: radius_msg_finish_das_resp signs the response or fails
Finish ==
  /\ pc = "finish"
  /\ steps' = Append(steps, "finish")
  /\ \E res \in {-1, 0} :
       /\ reply' = IF res < 0 THEN reply
                   ELSE <<SignReply(das[ctx], reply[1], msg[1])>>
       /\ pc' = AfterFinish(res)
  /\ UNCHANGED <<lifeVars, callVars, sock, ctx, from, buf, msg, objs, sent>>

\* variant: the response sent to the configured client address and port
SendDest_conf(d, src) == [addr |-> d.client_addr, port |-> 3799]

\* line 130: the destination handed to sendto is the source recvfrom stored
SendDest(d, src) == src

\* lines 127-134: one sendto on das->sock, whatever it returns
SendTo ==
  /\ pc = "sendto"
  /\ steps' = Append(steps, "sendto")
  /\ \E res \in {-1, 1} :
       sent' = Append(sent, [sock |-> das[ctx].sock,
                             to |-> SendDest(das[ctx], from[1]),
                             pkt |-> reply[1], res |-> res])
  /\ pc' = "fail"
  /\ UNCHANGED <<lifeVars, callVars, sock, ctx, from, buf, msg, reply, objs>>

\* variant: the response is never released
Cleanup_msgonly(os, m, r) == radius_msg_free(os, "msg", m)

\* lines 138-139
Cleanup(os, m, r) ==
  radius_msg_free(radius_msg_free(os, "msg", m), "reply", r)

\* lines 137-139, the label fail
Fail ==
  /\ pc = "fail"
  /\ steps' = Append(steps, "free")
  /\ objs' = Cleanup(objs, msg, reply)
  /\ pc' = "return"
  /\ UNCHANGED <<lifeVars, callVars, sock, ctx, from, buf, msg, reply, sent>>

\* the handler returns to the event loop; its locals are gone
Return ==
  /\ pc = "return"
  /\ pc' = "idle"
  /\ sock' = 0
  /\ ctx' = NULL
  /\ from' = <<>>
  /\ buf' = <<>>
  /\ msg' = <<>>
  /\ reply' = <<>>
  /\ objs' = NoObjs
  /\ sent' = <<>>
  /\ steps' = <<>>
  /\ UNCHANGED <<lifeVars, callVars>>

Init ==
  /\ das = [e \in Endpoints |-> ZeroDas]
  /\ heap = {}
  /\ fdtab = [fd \in FDs |-> IF fd = 0 THEN FD_OTHER ELSE FD_CLOSED]
  /\ eloop = [fd \in FDs |-> NULL]
  /\ rxq = [fd \in FDs |-> 0]
  /\ held = {}
  /\ stale = {}
  /\ lastCall = NoCall
  /\ pc = "idle"
  /\ sock = 0
  /\ ctx = NULL
  /\ from = <<>>
  /\ buf = <<>>
  /\ msg = <<>>
  /\ reply = <<>>
  /\ objs = NoObjs
  /\ sent = <<>>
  /\ steps = <<>>

Next ==
  \/ \E conf \in Confs : CallInit(conf)
  \/ \E p \in {NULL} \cup Endpoints : CallDeinit(p)
  \/ \E fd \in FDs : Arrive(fd)
  \/ \E fd \in FDs : Notify(fd)
  \/ RecvFrom
  \/ OriginCheck
  \/ Parse
  \/ Verify
  \/ Dispatch
  \/ Finish
  \/ SendTo
  \/ Fail
  \/ Return

Spec == Init /\ [][Next]_vars

\* the steps of the handler.  The handler makes no blocking call but
\* recvfrom on a readable socket and is run by the one thread of the event
\* loop, so a handler that has been entered keeps taking steps
Handler ==
  \/ RecvFrom \/ OriginCheck \/ Parse \/ Verify \/ Dispatch \/ Finish
  \/ SendTo \/ Fail \/ Return

SpecLive == Init /\ [][Next]_vars /\ WF_vars(Handler)

\* the lifecycle calls under a caller that may keep a pointer it has passed
\* to radius_das_deinit and pass it again (the network and the handler,
\* which no lifecycle call interleaves with, are left out)
NextDangling ==
  \/ \E conf \in Confs : CallInit(conf)
  \/ \E p \in {NULL} \cup Endpoints : CallDeinit(p)
  \/ \E p \in Endpoints : CallDeinitKeep(p)
  \/ \E p \in Endpoints : CallDeinitStale(p)

SpecDangling == Init /\ [][NextDangling]_vars

(* ================================ claims ================================ *)
InCycle == pc # "idle"

\* the request the cycle decoded verifies against the endpoint's secret
Authentic ==
  /\ msg # <<>>
  /\ radius_msg_verify_das_req(msg[1], das[ctx].secret_bytes,
                               das[ctx].shared_secret_len) = 0

OnOrigin == from # <<>> /\ from[1].addr = das[ctx].client_addr

OffOrigin == from # <<>> /\ from[1].addr # das[ctx].client_addr

LogHas(log, entry) == \E i \in DOMAIN log : log[i] = entry

\* C1: a cycle whose datagram came from an address other than the
\* endpoint's configured client address performs no sendto, whatever the
\* bytes of the datagram are.
C1_NoSendOffOrigin == (InCycle /\ OffOrigin) => sent = <<>>

\* a cycle has ended on a datagram from another address that holds a
\* Disconnect-Request signed with the endpoint's own secret
C1_Witness ==
  /\ pc = "return"
  /\ OffOrigin
  /\ radius_msg_parse(buf) # <<>>
  /\ radius_msg_parse(buf)[1].code = "DISCONNECT_REQUEST"
  /\ radius_msg_verify_das_req(radius_msg_parse(buf)[1],
                               das[ctx].secret_bytes,
                               das[ctx].shared_secret_len) = 0

\* C2: when the datagram is from the trusted peer and decodes but its
\* authenticator does not verify against the endpoint's secret, the cycle
\* constructs no response and performs no sendto, for every request code.
C2_NoReplyUnauthenticated ==
  (InCycle /\ OnOrigin /\ msg # <<>> /\ ~Authentic)
    => (reply = <<>> /\ objs["reply"] = "none" /\ sent = <<>>)

\* a cycle has ended on a Disconnect-Request from the trusted peer that was
\* signed with another secret, after the verification step ran
C2_Witness ==
  /\ pc = "return"
  /\ OnOrigin
  /\ msg # <<>>
  /\ ~Authentic
  /\ msg[1].code = "DISCONNECT_REQUEST"
  /\ steps = <<"recvfrom", "origin", "parse", "verify", "free">>

\* C3: for an authenticated Disconnect-Request (CoA-Request) from the
\* trusted peer, every response handed to sendto has the code
\* Disconnect-NAK (CoA-NAK), the identifier of the request and an
\* Error-Cause attribute of value 405.
C3_NakEchoesRequest ==
  \A i \in DOMAIN sent :
    (OnOrigin /\ Authentic
       /\ msg[1].code \in {"DISCONNECT_REQUEST", "COA_REQUEST"})
    => /\ msg[1].code = "DISCONNECT_REQUEST"
            => sent[i].pkt.code = "DISCONNECT_NAK"
       /\ msg[1].code = "COA_REQUEST" => sent[i].pkt.code = "COA_NAK"
       /\ sent[i].pkt.identifier = msg[1].identifier
       /\ LogHas(sent[i].pkt.attrs, <<"ERROR_CAUSE", 405>>)

\* a response to an authenticated CoA-Request with identifier 200 was sent
C3_Witness ==
  /\ sent # <<>>
  /\ OnOrigin
  /\ Authentic
  /\ msg[1].code = "COA_REQUEST"
  /\ msg[1].identifier = 200
  /\ sent[1].res > 0

\* C4: an authenticated datagram from the trusted peer whose code is neither
\* Disconnect-Request nor CoA-Request gets no response constructed and no
\* sendto.
C4_NoReplyUnknownCode ==
  (InCycle /\ OnOrigin /\ Authentic
     /\ msg[1].code \notin {"DISCONNECT_REQUEST", "COA_REQUEST"})
    => (reply = <<>> /\ objs["reply"] = "none" /\ sent = <<>>)

\* a cycle has ended on an authenticated Access-Request from the trusted
\* peer, after the switch ran
C4_Witness ==
  /\ pc = "return"
  /\ OnOrigin
  /\ Authentic
  /\ msg[1].code = "ACCESS_REQUEST"
  /\ LogHas(steps, "dispatch")

\* C5: every sendto goes to the source address and source port recvfrom
\* reported in the same cycle, and the origin check passes a datagram from
\* the trusted address whatever its source port is.
C5_ReplyToSource ==
  /\ \A i \in DOMAIN sent : sent[i].to = from[1]
  /\ (InCycle /\ OnOrigin /\ steps = <<"recvfrom", "origin">>)
       => pc = "parse"

\* a response went to the trusted address on a source port that is not the
\* port any configuration names
C5_Witness ==
  /\ sent # <<>>
  /\ OnOrigin
  /\ from[1].port \notin ConfPorts
  /\ sent[1].to.port = from[1].port

\* the configurations the specification says radius_das_init refuses
ConfInvalid(conf) ==
  \/ conf.port = 0
  \/ conf.shared_secret = NULL
  \/ conf.shared_secret_len = 0
  \/ conf.client_addr = NULL

\* C6: radius_das_init returns no endpoint when the port is zero, the secret
\* is empty or absent or the client address is absent, and then has opened
\* no socket, registered nothing and allocated nothing.
C6_InitRefusesInvalidConf ==
  (lastCall.op = "init" /\ ConfInvalid(lastCall.conf))
    => (lastCall.ret = NULL /\ lastCall.log = <<>>)

\* C7: when radius_das_init fails after it acquired something, the endpoint
\* record and the secret buffer it allocated are freed, the socket it opened
\* is closed and no read registration for the endpoint remains.
C7_InitFailureReleases ==
  (lastCall.op = "init" /\ lastCall.ret = NULL)
    => /\ \A e \in Endpoints :
            LogHas(lastCall.log, <<"zalloc", e>>)
              => /\ <<"das", e>> \notin heap
                 /\ <<"secret", e>> \notin heap
                 /\ \A fd \in FDs : eloop[fd] # e
       /\ \A fd \in FDs :
            LogHas(lastCall.log, <<"socket", fd>>)
              => /\ fdtab[fd] = FD_CLOSED
                 /\ LogHas(lastCall.log, <<"close", fd>>)

\* radius_das_init has failed at eloop_register_read_sock, holding the
\* endpoint record, the secret buffer and an open socket
C7_Witness ==
  /\ lastCall.op = "init"
  /\ lastCall.ret = NULL
  /\ lastCall.path = "register"
  /\ \E e \in Endpoints : LogHas(lastCall.log, <<"malloc", e>>)
  /\ \E fd \in FDs : LogHas(lastCall.log, <<"socket", fd>>)

\* C8: from a successful radius_das_init until radius_das_deinit, the
\* endpoint's socket is open and registered for reading with the endpoint as
\* context.
C8_LiveEndpointRegistered ==
  \A e \in held :
    /\ das[e].sock >= 0
    /\ fdtab[das[e].sock] > FD_OTHER
    /\ eloop[das[e].sock] = e

\* C9 as stated: radius_das_deinit on NULL or on an endpoint that was
\* already torn down deregisters nothing, closes nothing and frees nothing.
C9_DeinitTwiceIsNoop ==
  (lastCall.op = "deinit" /\ (lastCall.arg = NULL \/ lastCall.onStale))
    => lastCall.log = <<>>

\* C9 as amended: radius_das_deinit(NULL) deregisters nothing, closes
\* nothing and frees nothing, and leaves the endpoints, the heap, the
\* descriptors, the registrations and the queues as they were.
C9_DeinitNullIsNoop ==
  [][(lastCall'.op = "deinit" /\ lastCall'.arg = NULL)
       => (lastCall'.log = <<>> /\ UNCHANGED lifeVars)]_vars

\* radius_das_deinit(NULL) was called while an endpoint was live
C9_Witness ==
  /\ lastCall.op = "deinit"
  /\ lastCall.arg = NULL
  /\ held # {}

\* C10: no step of a receive cycle changes an endpoint, the heap, the
\* descriptor table or the registrations, so during and after every cycle
\* the handler's socket is the endpoint's socket, open and registered for
\* the endpoint, and the secret, its length and the client address are the
\* ones radius_das_init stored.
C10_CycleLeavesEndpoint ==
  /\ [](InCycle => /\ das[ctx].sock = sock
                   /\ fdtab[sock] > FD_OTHER
                   /\ eloop[sock] = ctx
                   /\ <<"das", ctx>> \in heap
                   /\ <<"secret", ctx>> \in heap)
  /\ [][InCycle => UNCHANGED <<das, heap, fdtab, eloop>>]_vars

\* a cycle has ended after a failed sendto, the endpoint as before
C10_Witness ==
  /\ pc = "return"
  /\ sent # <<>>
  /\ sent[1].res < 0
  /\ das[ctx].sock = sock
  /\ eloop[sock] = ctx

\* the NAK code the switch answers a request code with
NakOf(code) ==
  IF code = "DISCONNECT_REQUEST" THEN "DISCONNECT_NAK" ELSE "COA_NAK"

\* the response a datagram's bytes and an endpoint's configuration alone
\* determine: the NAK for the request's code with the request's identifier
\* and Error-Cause 405, unsigned
UnsignedFor(bytes, d) ==
  [code |-> NakOf(bytes[1]), identifier |-> bytes[2],
   attrs |-> <<<<"ERROR_CAUSE", 405>>>>, msgauth |-> <<>>]

\* the same response with the Message-Authenticator attribute, keyed by the
\* endpoint's secret over the authenticator found in the bytes
SignedFor(bytes, d) ==
  [code |-> NakOf(bytes[1]), identifier |-> bytes[2],
   attrs |-> <<<<"ERROR_CAUSE", 405>>, <<"MESSAGE_AUTHENTICATOR", 16>>>>,
   msgauth |-> <<SubSeq(d.secret_bytes, 1, d.shared_secret_len), bytes[3]>>]

\* C11 as stated: the response of a cycle is a function of the cycle's
\* datagram (bytes, source address and port) and of the endpoint's
\* configuration only, so the same datagram gets the same code, identifier,
\* attributes and destination in every cycle.
C11_ResponseIsFunctionOfDatagram ==
  \A i \in DOMAIN sent :
    /\ sent[i].pkt = SignedFor(buf, das[ctx])
    /\ sent[i].to = from[1]

\* C11 as amended: the code, the identifier, the Error-Cause attribute and
\* the destination of a response are a function of the cycle's datagram and
\* of the endpoint's configuration only; the Message-Authenticator attribute
\* is that function's too when the signing step succeeded and is absent when
\* it failed, so two cycles on the same datagram differ at most in the
\* presence of Message-Authenticator.
C11_ResponseUpToSigning ==
  \A i \in DOMAIN sent :
    /\ sent[i].pkt \in {SignedFor(buf, das[ctx]), UnsignedFor(buf, das[ctx])}
    /\ sent[i].to = from[1]

\* a cycle has sent the signed response while a further datagram was
\* pending on the socket
C11_Witness ==
  /\ pc = "return"
  /\ sent # <<>>
  /\ sent[1].pkt = SignedFor(buf, das[ctx])
  /\ sent[1].to = from[1]
  /\ rxq[sock] > 0

\* C12 as stated: every response that is sent carries a Message-Authenticator
\* computed with the endpoint's shared secret and the request's
\* authenticator.
C12_EverySentIsSigned ==
  \A i \in DOMAIN sent :
    /\ LogHas(sent[i].pkt.attrs, <<"MESSAGE_AUTHENTICATOR", 16>>)
    /\ sent[i].pkt.msgauth =
         <<SubSeq(das[ctx].secret_bytes, 1, das[ctx].shared_secret_len),
           msg[1].authenticator>>

\* C12 as amended: no response is sent before the signing step was
\* attempted, and a response that carries a Message-Authenticator carries
\* the one computed with the endpoint's shared secret and the request's
\* authenticator; a response whose signing step failed is sent without one.
C12_SignedWhenSigningSucceeded ==
  \A i \in DOMAIN sent :
    /\ LogHas(steps, "finish")
    /\ \/ /\ sent[i].pkt.msgauth = <<>>
          /\ ~LogHas(sent[i].pkt.attrs, <<"MESSAGE_AUTHENTICATOR", 16>>)
       \/ /\ LogHas(sent[i].pkt.attrs, <<"MESSAGE_AUTHENTICATOR", 16>>)
          /\ sent[i].pkt.msgauth =
               <<SubSeq(das[ctx].secret_bytes, 1, das[ctx].shared_secret_len),
                 msg[1].authenticator>>

\* a signed response was sent by an endpoint with a non-empty secret
C12_Witness ==
  /\ sent # <<>>
  /\ sent[1].res > 0
  /\ das[ctx].shared_secret_len > 0
  /\ sent[1].pkt.msgauth = <<das[ctx].secret_bytes, msg[1].authenticator>>

\* the steps of a cycle in the order of the handler's code
StepOrder ==
  <<"recvfrom", "origin", "parse", "verify", "dispatch", "finish", "sendto">>

\* the steps the cycle has taken, the release at the label fail left out
StepsTaken == SelectSeq(steps, LAMBDA x : x # "free")

\* C13: the steps of a cycle occur only in the order receive, origin check,
\* decode, authenticate, dispatch, sign, send, each after every earlier gate
\* succeeded: decode only for a datagram from the trusted address,
\* verification only after decode succeeded, dispatch only for a request
\* that verified, and a datagram that fails to decode causes no
\* verification, no response construction and no send.
C13_StepsInOrder ==
  /\ Len(StepsTaken) <= Len(StepOrder)
  /\ StepsTaken = SubSeq(StepOrder, 1, Len(StepsTaken))
  /\ LogHas(steps, "parse") => OnOrigin
  /\ LogHas(steps, "verify") => msg # <<>>
  /\ LogHas(steps, "dispatch") => Authentic
  /\ LogHas(steps, "finish") => reply # <<>>
  /\ (LogHas(steps, "parse") /\ msg = <<>>)
       => /\ pc = "return"
          /\ StepsTaken = <<"recvfrom", "origin", "parse">>
          /\ reply = <<>>
          /\ objs["reply"] = "none"
          /\ sent = <<>>

\* a cycle has ended on a datagram from the trusted address that failed to
\* decode
C13_Witness ==
  /\ pc = "return"
  /\ OnOrigin
  /\ LogHas(steps, "parse")
  /\ msg = <<>>

\* C14: when a response was constructed and radius_msg_finish_das_resp
\* fails, the cycle still performs exactly one sendto, of that response and
\* to the request's source, and then ends normally.
C14_SignFailureStillSends ==
  (pc = "return" /\ LogHas(steps, "finish") /\ reply[1].msgauth = <<>>)
    => /\ Len(sent) = 1
       /\ sent[1].pkt = reply[1]
       /\ sent[1].to = from[1]
       /\ sent[1].sock = das[ctx].sock
       /\ steps[Len(steps)] = "free"
       /\ objs = [o \in {"msg", "reply"} |-> "freed"]

\* a cycle has ended after the signing step failed and the unsigned response
\* was sent
C14_Witness ==
  /\ pc = "return"
  /\ LogHas(steps, "finish")
  /\ reply[1].msgauth = <<>>
  /\ sent # <<>>
  /\ sent[1].res > 0

\* the number of times a step occurs in the steps of the cycle
Count(step) == Cardinality({i \in DOMAIN steps : steps[i] = step})

\* C15: an invocation of radius_das_receive performs exactly one recvfrom
\* and at most one sendto; with several datagrams pending it takes one and
\* leaves the rest, and a failed sendto is retried neither in the cycle nor
\* by a later cycle, which starts with nothing to send.
C15_OneDatagramPerCycle ==
  /\ [](/\ InCycle => Count("recvfrom") <= 1
        /\ pc \notin {"idle", "recvfrom"} => Count("recvfrom") = 1
        /\ Len(sent) <= 1
        /\ Count("sendto") = Len(sent)
        /\ pc \in {"idle", "recvfrom"} => sent = <<>>)
  /\ [][/\ pc = "recvfrom" => rxq'[sock] \in {rxq[sock], rxq[sock] - 1}
        /\ (InCycle /\ pc # "recvfrom") => rxq' = rxq
        /\ (sent # <<>> /\ sent[1].res < 0) => pc' \in {"return", "idle"}
        /\ pc' = "recvfrom" => sent' = <<>>]_vars

\* a cycle has ended after a failed sendto with a datagram still pending on
\* its socket
C15_Witness ==
  /\ pc = "return"
  /\ rxq[sock] > 0
  /\ sent # <<>>
  /\ sent[1].res < 0

\* C16: whenever the handler has returned, every request decoded and every
\* response constructed in the cycle has been released exactly once, and no
\* object is released twice at any step.
C16_ReleasedOnce ==
  /\ \A o \in {"msg", "reply"} : objs[o] # "double"
  /\ pc = "return"
       => /\ \A o \in {"msg", "reply"} : objs[o] \in {"none", "freed"}
          /\ msg # <<>> => objs["msg"] = "freed"
          /\ reply # <<>> => objs["reply"] = "freed"

\* a cycle that decoded a request and constructed a response has ended
C16_Witness ==
  /\ pc = "return"
  /\ msg # <<>>
  /\ reply # <<>>
  /\ objs = [o \in {"msg", "reply"} |-> "freed"]

\* the position of an entry in the log of a call, 0 when it is not there
Pos(log, entry) ==
  IF LogHas(log, entry)
  THEN CHOOSE i \in DOMAIN log :
         log[i] = entry /\ \A j \in 1..(i-1) : log[j] # entry
  ELSE 0

\* C17: radius_das_deinit deregisters the socket before it closes it and
\* before it frees the secret and the endpoint, so in every state a read
\* registration for an endpoint implies that the registered descriptor is
\* the endpoint's open socket and that the endpoint and its secret are not
\* freed, and a callback only ever runs on such an endpoint, never on one
\* radius_das_deinit has returned from.
C17_DeregisteredBeforeRelease ==
  /\ \A fd \in FDs :
       eloop[fd] # NULL
         => /\ fdtab[fd] > FD_OTHER
            /\ <<"das", eloop[fd]>> \in heap
            /\ <<"secret", eloop[fd]>> \in heap
            /\ das[eloop[fd]].sock = fd
  /\ InCycle => (eloop[sock] = ctx /\ <<"das", ctx>> \in heap)
  /\ (lastCall.op = "deinit" /\ lastCall.arg # NULL)
       => /\ \A fd \in FDs : eloop[fd] # lastCall.arg
          /\ <<"das", lastCall.arg>> \notin heap
          /\ \A fd \in FDs :
               LogHas(lastCall.log, <<"close", fd>>)
                 => /\ LogHas(lastCall.log, <<"unregister", fd>>)
                    /\ Pos(lastCall.log, <<"unregister", fd>>)
                         < Pos(lastCall.log, <<"close", fd>>)
                    /\ Pos(lastCall.log, <<"close", fd>>)
                         < Pos(lastCall.log, <<"free_secret", lastCall.arg>>)
          /\ Pos(lastCall.log, <<"free_secret", lastCall.arg>>)
               < Pos(lastCall.log, <<"free_das", lastCall.arg>>)

\* radius_das_deinit has torn down an endpoint: it has deregistered and
\* closed its socket and freed its secret and its record
C17_Witness ==
  /\ lastCall.op = "deinit"
  /\ lastCall.arg # NULL
  /\ \E fd \in FDs :
       /\ LogHas(lastCall.log, <<"unregister", fd>>)
       /\ LogHas(lastCall.log, <<"close", fd>>)
  /\ LogHas(lastCall.log, <<"free_secret", lastCall.arg>>)
  /\ LogHas(lastCall.log, <<"free_das", lastCall.arg>>)

\* C18: when radius_msg_new fails for an authenticated Disconnect-Request
\* or CoA-Request, no attribute is added, no signing is attempted, no sendto
\* is performed, and the cycle ends with the request released and the
\* endpoint as it was, still registered on its open socket.
C18_ReplyAllocFailure ==
  (LogHas(steps, "dispatch") /\ reply = <<>>
     /\ msg[1].code \in {"DISCONNECT_REQUEST", "COA_REQUEST"})
    => /\ Authentic
       /\ pc \in {"fail", "return"}
       /\ objs["reply"] = "none"
       /\ ~LogHas(steps, "finish")
       /\ ~LogHas(steps, "sendto")
       /\ sent = <<>>
       /\ pc = "return" => (objs["msg"] = "freed"
                              /\ steps[Len(steps)] = "free")
       /\ das[ctx].sock = sock
       /\ fdtab[sock] > FD_OTHER
       /\ eloop[sock] = ctx
       /\ <<"das", ctx>> \in heap

\* a cycle has ended on an authenticated Disconnect-Request for which
\* radius_msg_new returned NULL
C18_Witness ==
  /\ pc = "return"
  /\ LogHas(steps, "dispatch")
  /\ reply = <<>>
  /\ Authentic
  /\ msg[1].code = "DISCONNECT_REQUEST"

\* the number of steps the handler can still take from a position
Rank(at) ==
  CASE at = "recvfrom" -> 9
    [] at = "origin"   -> 8
    [] at = "parse"    -> 7
    [] at = "verify"   -> 6
    [] at = "dispatch" -> 5
    [] at = "finish"   -> 4
    [] at = "sendto"   -> 3
    [] at = "fail"     -> 2
    [] at = "return"   -> 1
    [] OTHER           -> 0

\* C19: every receive cycle terminates: whatever the outcomes of receive,
\* decode, verification, construction, signing and send, a handler that was
\* entered returns to Idle; at no position does it wait (a step is always
\* enabled) and no step leads back to an earlier position (every step
\* brings the return nearer), so the next notification can be handled.
C19_CycleTerminates ==
  /\ InCycle ~> (pc = "idle")
  /\ [](InCycle => ENABLED Handler)
  /\ [][InCycle => Rank(pc') < Rank(pc)]_vars

\* a cycle has gone through every step of the handler and is about to
\* return
C19_Witness ==
  /\ pc = "return"
  /\ steps = Append(StepOrder, "free")
  /\ reply # <<>>
  /\ reply[1].msgauth # <<>>

\* C20: radius_das_deinit, also when radius_das_init calls it on a failure
\* path, deregisters and closes only a descriptor radius_das_open_socket
\* returned for this endpoint: a call of radius_das_init deregisters or
\* closes no descriptor it did not get from socket() earlier in the same
\* call (not descriptor 0 of a zero-initialised endpoint), closes no
\* descriptor twice, and radius_das_deinit called by the owner closes the
\* socket the endpoint recorded, once.
C20_DeinitClosesOwnSocketOnly ==
  /\ lastCall.op = "init"
       => \A i \in DOMAIN lastCall.log :
            lastCall.log[i][1] \in {"unregister", "close"}
              => /\ \E j \in 1..(i-1) :
                      lastCall.log[j] = <<"socket", lastCall.log[i][2]>>
                 /\ \A j \in 1..(i-1) : lastCall.log[j] # lastCall.log[i]
  /\ lastCall.op = "deinit"
       => \A i, j \in DOMAIN lastCall.log :
            (lastCall.log[i][1] = "close" /\ lastCall.log[j][1] = "close")
              => i = j

====
